---- MODULE Spec2Model ----
(***************************************************************************)
(* A model of the Cast Duet solver (solver.js): the position model, the    *)
(* dent lookup, the construction of the legal-move graph and the           *)
(* shortest-path search of findSolution.                                   *)
(*                                                                         *)
(* JavaScript strings are TLA+ strings; the i-th character of s is         *)
(* SubSeq(s, i, i).  A JavaScript object used as a table is a function     *)
(* from its keys; the for-in order of the node table is the sequence       *)
(* NodeKeys.  TLC compares only values of one kind, so every JavaScript    *)
(* value that may be undefined has an undefined of its kind: the string    *)
(* "undefined" for a name, UndefinedNumber for a number, UndefinedPos for  *)
(* a parsed position and the empty sequence for the solution array (the    *)
(* code never makes an empty array).  A finite number n is Num(n).         *)
(***************************************************************************)
EXTENDS Integers, Sequences, FiniteSets, TLC

VARIABLES
    CastDuetGraphNodes, \* the node table: name -> [name, connectsTo, dist, prev]
    nodeKeys,           \* the keys of the node table in for-in order
    pc,                 \* position of the program: idle, loop, walk, returned, thrown, fn
    startPosition,      \* arguments of the current findSolution call
    targetPosition,
    q,                  \* dijkstra: the unvisited nodes, in for-in order
    qlen,               \* dijkstra: the number of unvisited nodes
    solution,           \* findSolution: the path built so far / returned
    node,               \* findSolution: name of the node the walk is at
    fnArg,              \* argument record of a stand-alone function call
    fnRet,              \* its result
    builder,            \* parseTopologySketch while it runs: nodes, keys, col, row, count
    initCalls,          \* the number of calls of initSolver made so far
    calls               \* the number of calls of findSolution made so far

vars == <<CastDuetGraphNodes, nodeKeys, pc, startPosition, targetPosition, q, qlen,
          solution, node, fnArg, fnRet, builder, initCalls, calls>>

undefined == "undefined"
UndefinedNumber == [ undefined |-> TRUE ]
UndefinedPos == [ undefined |-> TRUE ]
UndefinedSolution == << >>
Infinity == [ infinite |-> TRUE ]
Num(n) == [ value |-> n ]
IsNum(a) == DOMAIN a = {"value"}

\* a < b on JavaScript numbers; a comparison with undefined (NaN) is false
Less(a, b) ==
    /\ IsNum(a)
    /\ \/ b = Infinity
       \/ (IsNum(b) /\ a.value < b.value)

-----------------------------------------------------------------------------
(* The topology table *)

CastDuetTopologySketch ==
    << "+-H-----+-H---H-+-----H-+",
       "|       H       D       H",
       "|       |       |       |",
       "|       |       |       |",
       "+-D-----+-B---D-+-H-----+",
       "H       D       B       H",
       "|       |       |       |",
       "H       B       D       H",
       "+-----H-+-B---B-+-D-----+",
       "|       |       |       |",
       "|       |       |       |",
       "H       D       H       /",
       "+-B-----+-----D-+------/ " >>

PegPosUp == "U"
PegPosDown == "D"
FreeRingName == "FREE"

-----------------------------------------------------------------------------
(* The position model *)

\* as getCellName, with the row written before the column
getCellName_RowFirst(col, row) == "(" \o ToString(row) \o "," \o ToString(col) \o ")"

\* "(" + col + "," + row + ")": number-to-string conversion is ToString
getCellName(col, row) == "(" \o ToString(col) \o "," \o ToString(row) \o ")"

positionToName(pegCol, pegRow, ringCol, ringRow) ==
    getCellName(pegCol, pegRow) \o "-" \o getCellName(ringCol, ringRow)

getRingName(pegPos, pegCol, pegRow, ringCol, ringRow) ==
    pegPos \o positionToName(pegCol, pegRow, ringCol, ringRow)

isCellFree(col, row) == (col <= 0) \/ (row <= 0) \/ (col >= 4) \/ (row >= 4)

\* as RingIsFree, free as soon as one of the two parts is free
RingIsFree_EitherPart(pegCol, pegRow, ringCol, ringRow) ==
    isCellFree(pegCol, pegRow) \/ isCellFree(ringCol, ringRow)

RingIsFree(pegCol, pegRow, ringCol, ringRow) ==
    LET pegPartFree == isCellFree(pegCol, pegRow)
        ringPartFree == isCellFree(ringCol, ringRow)
    IN  pegPartFree /\ ringPartFree

Ring(pegPos, pegCol, pegRow, ringCol, ringRow, rotation) ==
    [ pegPos |-> pegPos, pegCol |-> pegCol, pegRow |-> pegRow,
      ringCol |-> ringCol, ringRow |-> ringRow, rotation |-> rotation,
      name |-> getRingName(pegPos, pegCol, pegRow, ringCol, ringRow),
      isFree |-> RingIsFree(pegCol, pegRow, ringCol, ringRow) ]

\* as generateAllRingsForCell, without the four diagonal ring cells
generateAllRingsForCell_NoDiagonals(pegCol, pegRow) ==
    LET push(ringCol, ringRow, rotation) ==
            << Ring(PegPosUp, pegCol, pegRow, ringCol, ringRow, rotation),
               Ring(PegPosDown, pegCol, pegRow, ringCol, ringRow, rotation) >>
    IN  push(pegCol - 1, pegRow,     1) \o
        push(pegCol,     pegRow + 1, 3) \o
        push(pegCol + 1, pegRow,     5) \o
        push(pegCol,     pegRow - 1, 7)

\* the 16 rings pushed for one peg cell, in push order
generateAllRingsForCell(pegCol, pegRow) ==
    LET push(ringCol, ringRow, rotation) ==
            << Ring(PegPosUp, pegCol, pegRow, ringCol, ringRow, rotation),
               Ring(PegPosDown, pegCol, pegRow, ringCol, ringRow, rotation) >>
    IN  push(pegCol - 1, pegRow - 1, 0) \o
        push(pegCol - 1, pegRow,     1) \o
        push(pegCol - 1, pegRow + 1, 2) \o
        push(pegCol,     pegRow + 1, 3) \o
        push(pegCol + 1, pegRow + 1, 4) \o
        push(pegCol + 1, pegRow,     5) \o
        push(pegCol + 1, pegRow - 1, 6) \o
        push(pegCol,     pegRow - 1, 7)

getNodeName(pegPos, pegCol, pegRow, ringCol, ringRow) ==
    IF RingIsFree(pegCol, pegRow, ringCol, ringRow)
    THEN FreeRingName
    ELSE getRingName(pegPos, pegCol, pegRow, ringCol, ringRow)

-----------------------------------------------------------------------------
(* The dent lookup *)

DentSlots == {"tl", "tr", "bl", "br", "lt", "lb", "rt", "rb"}

\* as getSketchDent, with no dent outside the sketch
getSketchDent_NoDentOutside(row, col) ==
    LET sketch == CastDuetTopologySketch
        ok == /\ row >= 0
              /\ row < Len(sketch)
              /\ col >= 0
              /\ col < Len(sketch[row + 1])
    IN  IF ok THEN SubSeq(sketch[row + 1], col + 1, col + 1) ELSE " "

\* sketch[row][col] with 0-based indices, "B" outside the sketch
getSketchDent(row, col) ==
    LET sketch == CastDuetTopologySketch
        ok == /\ row >= 0
              /\ row < Len(sketch)
              /\ col >= 0
              /\ col < Len(sketch[row + 1])
    IN  IF ok THEN SubSeq(sketch[row + 1], col + 1, col + 1) ELSE "B"

\* the dents object: a function whose domain is the set of slots kept
getCellDents(col, row) ==
    LET skTopRow == 12 - row * 4
        skBottomRow == skTopRow + 4
        skLeftCol == (col - 1) * 8
        skRightCol == skLeftCol + 8
        dents == [ tl |-> getSketchDent(skTopRow, skLeftCol + 2),
                   tr |-> getSketchDent(skTopRow, skRightCol - 2),
                   bl |-> getSketchDent(skBottomRow, skLeftCol + 2),
                   br |-> getSketchDent(skBottomRow, skRightCol - 2),
                   lt |-> getSketchDent(skTopRow + 1, skLeftCol),
                   lb |-> getSketchDent(skBottomRow - 1, skLeftCol),
                   rt |-> getSketchDent(skTopRow + 1, skRightCol),
                   rb |-> getSketchDent(skBottomRow - 1, skRightCol) ]
        kept == { d \in DentSlots : dents[d] \in {"D", "H", "B"} }
    IN  [ d \in kept |-> dents[d] ]

-----------------------------------------------------------------------------
(* The graph builder *)

\* as connect, with a dent on both sides passable by neither orientation
connect_NoBothSides(ring, dents, dentName, colDelta, rowDelta, ringColDelta, ringRowDelta) ==
    LET newPegCol == ring.pegCol + colDelta
        newPegRow == ring.pegRow + rowDelta
        dent == IF dentName \in DOMAIN dents THEN dents[dentName] ELSE undefined
        dentOk == \/ (ring.pegPos = PegPosUp /\ dent = "D")
                  \/ (ring.pegPos = PegPosDown /\ dent = "H")
    IN  IF dentOk
        THEN { getNodeName(ring.pegPos, newPegCol, newPegRow,
                           ring.ringCol + ringColDelta, ring.ringRow + ringRowDelta) }
        ELSE {}

\* the destination added by one connect() call, as a set (empty when the
\* dent is missing or not compatible with the peg orientation)
connect(ring, dents, dentName, colDelta, rowDelta, ringColDelta, ringRowDelta) ==
    LET newPegCol == ring.pegCol + colDelta
        newPegRow == ring.pegRow + rowDelta
        dent == IF dentName \in DOMAIN dents THEN dents[dentName] ELSE undefined
        dentOk == \/ (ring.pegPos = PegPosUp /\ (dent = "D" \/ dent = "B"))
                  \/ (ring.pegPos = PegPosDown /\ (dent = "H" \/ dent = "B"))
    IN  IF dentOk
        THEN { getNodeName(ring.pegPos, newPegCol, newPegRow,
                           ring.ringCol + ringColDelta, ring.ringRow + ringRowDelta) }
        ELSE {}

\* as rotationConnections, with the dents of rotation 0 tested for rotation 2
\* and the dents of rotation 2 tested for rotation 0
rotationConnections_SwappedCorners(ring, dents, ringPartFree) ==
    LET c(d, cd, rd) == connect(ring, dents, d, cd, rd, 0, 0)
        s(d, cd, rd) == IF ringPartFree THEN connect(ring, dents, d, cd, rd, cd, rd) ELSE {}
    IN  CASE ring.rotation = 0 -> c("lb", -1, 0) \cup c("tr", 0, 1)
          [] ring.rotation = 1 -> c("tr", 0, 1) \cup c("br", 0, -1)
                                  \cup s("tl", 0, 1) \cup s("bl", 0, -1)
          [] ring.rotation = 2 -> c("lt", -1, 0) \cup c("br", 0, -1)
          [] ring.rotation = 3 -> c("lb", -1, 0) \cup c("rb", 1, 0)
                                  \cup s("lt", -1, 0) \cup s("rt", 1, 0)
          [] ring.rotation = 4 -> c("tl", 0, 1) \cup c("rb", 1, 0)
          [] ring.rotation = 5 -> c("tl", 0, 1) \cup c("bl", 0, -1)
                                  \cup s("tr", 0, 1) \cup s("br", 0, -1)
          [] ring.rotation = 6 -> c("rt", 1, 0) \cup c("bl", 0, -1)
          [] ring.rotation = 7 -> c("lt", -1, 0) \cup c("rt", 1, 0)
                                  \cup s("lb", -1, 0) \cup s("rb", 1, 0)
          [] OTHER -> {}

\* the switch on ring.rotation
rotationConnections(ring, dents, ringPartFree) ==
    LET c(d, cd, rd) == connect(ring, dents, d, cd, rd, 0, 0)
        s(d, cd, rd) == IF ringPartFree THEN connect(ring, dents, d, cd, rd, cd, rd) ELSE {}
    IN  CASE ring.rotation = 0 -> c("lt", -1, 0) \cup c("br", 0, -1)
          [] ring.rotation = 1 -> c("tr", 0, 1) \cup c("br", 0, -1)
                                  \cup s("tl", 0, 1) \cup s("bl", 0, -1)
          [] ring.rotation = 2 -> c("lb", -1, 0) \cup c("tr", 0, 1)
          [] ring.rotation = 3 -> c("lb", -1, 0) \cup c("rb", 1, 0)
                                  \cup s("lt", -1, 0) \cup s("rt", 1, 0)
          [] ring.rotation = 4 -> c("tl", 0, 1) \cup c("rb", 1, 0)
          [] ring.rotation = 5 -> c("tl", 0, 1) \cup c("bl", 0, -1)
                                  \cup s("tr", 0, 1) \cup s("br", 0, -1)
          [] ring.rotation = 6 -> c("rt", 1, 0) \cup c("bl", 0, -1)
          [] ring.rotation = 7 -> c("lt", -1, 0) \cup c("rt", 1, 0)
                                  \cup s("lb", -1, 0) \cup s("rb", 1, 0)
          [] OTHER -> {}

\* as ringSizeOk, with a distance of 2 allowed
ringSizeOk_UpToTwo(dSq) == dSq > 0 /\ dSq <= 4

\* pegRingDistance > 0 && pegRingDistance < 2 for the square root of the
\* integer dSq: sqrt is monotonic and sqrt(0) = 0, sqrt(4) = 2 are exact
ringSizeOk(dSq) == dSq > 0 /\ dSq < 4

\* as freeRotations, with the new ring cell not required to be free
freeRotations_AnyCell(ring) ==
    { getNodeName(ring.pegPos, ring.pegCol, ring.pegRow, ring.ringCol + x, ring.ringRow + y) :
        <<x, y>> \in { d \in (-1..1) \X (-1..1) :
            /\ ~(d[1] = 0 /\ d[2] = 0)
            /\ ringSizeOk((ring.pegCol - (ring.ringCol + d[1])) * (ring.pegCol - (ring.ringCol + d[1]))
                          + (ring.pegRow - (ring.ringRow + d[2])) * (ring.pegRow - (ring.ringRow + d[2]))) } }

\* the rotations of a free ring part around the peg
freeRotations(ring) ==
    { getNodeName(ring.pegPos, ring.pegCol, ring.pegRow, ring.ringCol + x, ring.ringRow + y) :
        <<x, y>> \in { d \in (-1..1) \X (-1..1) :
            /\ ~(d[1] = 0 /\ d[2] = 0)
            /\ isCellFree(ring.ringCol + d[1], ring.ringRow + d[2])
            /\ ringSizeOk((ring.pegCol - (ring.ringCol + d[1])) * (ring.pegCol - (ring.ringCol + d[1]))
                          + (ring.pegRow - (ring.ringRow + d[2])) * (ring.pegRow - (ring.ringRow + d[2]))) } }

\* as flipConnection, with the peg orientation kept
flipConnection_SameOrientation(ring) ==
    { getNodeName(ring.pegPos, ring.ringCol, ring.ringRow, ring.pegCol, ring.pegRow) }

\* the 180 degrees turn
flipConnection(ring) ==
    { getNodeName(IF ring.pegPos = PegPosDown THEN PegPosUp ELSE PegPosDown,
                  ring.ringCol, ring.ringRow, ring.pegCol, ring.pegRow) }

\* as getNodeConnections, with the slide moves tried wherever the ring part is
getNodeConnections_SlideAnywhere(ring) ==
    LET dents == getCellDents(ring.pegCol, ring.pegRow)
        ringPartFree == isCellFree(ring.ringCol, ring.ringRow)
    IN  rotationConnections(ring, dents, TRUE)
        \cup (IF ringPartFree THEN freeRotations(ring) ELSE {})
        \cup flipConnection(ring)

\* the connectsTo set that getNodeConnections fills for the node of a ring
getNodeConnections(ring) ==
    LET dents == getCellDents(ring.pegCol, ring.pegRow)
        ringPartFree == isCellFree(ring.ringCol, ring.ringRow)
    IN  rotationConnections(ring, dents, ringPartFree)
        \cup (IF ringPartFree THEN freeRotations(ring) ELSE {})
        \cup flipConnection(ring)

\* the cells of the enumeration loops, columns outside and rows inside
GridMin == 0
GridMax == 4
GridSize == GridMax - GridMin + 1

\* every ring created by the enumeration, in creation order (the cells are
\* numbered 0 .. GridSize * GridSize - 1, columns outside and rows inside)
AllRings ==
    LET RECURSIVE cells(_, _)
        cells(lo, hi) ==
            IF lo = hi
            THEN generateAllRingsForCell(GridMin + (lo \div GridSize), GridMin + (lo % GridSize))
            ELSE cells(lo, (lo + hi) \div 2) \o cells(((lo + hi) \div 2) + 1, hi)
    IN  cells(0, GridSize * GridSize - 1)

\* new Node(ring): the name of the node made for the k-th ring
NodeNameOfRing(k) ==
    getNodeName(AllRings[k].pegPos, AllRings[k].pegCol, AllRings[k].pegRow,
                AllRings[k].ringCol, AllRings[k].ringRow)

AllNodeNames ==
    LET RECURSIVE names(_, _)
        names(lo, hi) ==
            IF lo = hi THEN << NodeNameOfRing(lo) >>
            ELSE names(lo, (lo + hi) \div 2) \o names(((lo + hi) \div 2) + 1, hi)
    IN  names(1, Len(AllRings))

\* the keys of the node table in insertion order: FREE first, then each
\* name where it is first inserted (a later nodes[name] = node keeps the place)
NodeKeys ==
    LET isFirst(k) == /\ AllNodeNames[k] # FreeRingName
                      /\ \A j \in 1..(k - 1) : AllNodeNames[j] # AllNodeNames[k]
        RECURSIVE keys(_, _)
        keys(lo, hi) ==
            IF lo = hi THEN (IF isFirst(lo) THEN << AllNodeNames[lo] >> ELSE << >>)
            ELSE keys(lo, (lo + hi) \div 2) \o keys(((lo + hi) \div 2) + 1, hi)
    IN  << FreeRingName >> \o keys(1, Len(AllNodeNames))

NodeNames == { NodeKeys[i] : i \in 1..Len(NodeKeys) }

\* nodes[name].ring: the ring of the last node stored under the name (the
\* FREE entry made first, with an empty ring, is overwritten by such a node)
NodeRing ==
    LET RECURSIVE rings(_, _)
        rings(lo, hi) ==
            IF lo = hi THEN AllNodeNames[lo] :> AllRings[lo]
            ELSE rings(((lo + hi) \div 2) + 1, hi) @@ rings(lo, (lo + hi) \div 2)
    IN  rings(1, Len(AllRings)) @@ (FreeRingName :> [ name |-> FreeRingName ])

\* the connectsTo that getNodeConnections(node) fills, for every node but FREE
NodeConnections ==
    [ n \in NodeNames \ {FreeRingName} |-> getNodeConnections(NodeRing[n]) ]

\* as FreeConnections, with no edge added from FREE
FreeConnections_None == {}

\* nodes.FREE.connectsTo: the nodes that are connected to FREE
FreeConnections ==
    { m \in NodeNames \ {FreeRingName} : FreeRingName \in getNodeConnections(NodeRing[m]) }

\* the node table returned by parseTopologySketch; dist and prev are not
\* yet properties of a node
parseTopologySketch ==
    [ n \in NodeNames |->
        [ name |-> n,
          connectsTo |-> IF n = FreeRingName THEN FreeConnections ELSE NodeConnections[n],
          dist |-> UndefinedNumber,
          prev |-> undefined ] ]

-----------------------------------------------------------------------------
(* parsePosition *)

charAt(str, i) == SubSeq(str, i, i)

\* parseInt of a one-digit string
parseInt(ch) == CHOOSE d \in 0..9 : ToString(d) = ch

\* as IsDigit04, for the character class [0-9]
IsDigit04_AnyDigit(ch) == ch \in {"0", "1", "2", "3", "4", "5", "6", "7", "8", "9"}

\* the character class [0-4]
IsDigit04(ch) == ch \in {"0", "1", "2", "3", "4"}

\* positionAsString.match(/^([UD])\(([0-4]),([0-4])\)-\(([0-4]),([0-4])\)$/):
\* the five groups, or the empty sequence for null
posCheck(str) ==
    IF /\ Len(str) = 12
       /\ charAt(str, 1) \in {"U", "D"}
       /\ charAt(str, 2) = "("
       /\ IsDigit04(charAt(str, 3))
       /\ charAt(str, 4) = ","
       /\ IsDigit04(charAt(str, 5))
       /\ charAt(str, 6) = ")"
       /\ charAt(str, 7) = "-"
       /\ charAt(str, 8) = "("
       /\ IsDigit04(charAt(str, 9))
       /\ charAt(str, 10) = ","
       /\ IsDigit04(charAt(str, 11))
       /\ charAt(str, 12) = ")"
    THEN << charAt(str, 1), charAt(str, 3), charAt(str, 5), charAt(str, 9), charAt(str, 11) >>
    ELSE << >>

parsePosition(positionAsString) ==
    IF positionAsString = "FREE"
    THEN [ isFree |-> TRUE ]
    ELSE LET m == posCheck(positionAsString)
         IN  IF m # << >>
             THEN LET tempPos == [ isFree |-> FALSE,
                                   pegPos |-> m[1],
                                   pegCol |-> parseInt(m[2]),
                                   pegRow |-> parseInt(m[3]),
                                   ringCol |-> parseInt(m[4]),
                                   ringRow |-> parseInt(m[5]) ]
                      ringSizeSq == (tempPos.pegRow - tempPos.ringRow) * (tempPos.pegRow - tempPos.ringRow)
                                    + (tempPos.pegCol - tempPos.ringCol) * (tempPos.pegCol - tempPos.ringCol)
                  IN  IF ringSizeOk(ringSizeSq) THEN tempPos ELSE UndefinedPos
             ELSE UndefinedPos

-----------------------------------------------------------------------------
(* The inputs of findSolution *)

\* how many entries of PositionInputs are used as start / target strings
MaxStart == 7
MaxTarget == 7

PositionInputs ==
    << "U(3,1)-(4,1)", "FREE", "D(3,1)-(3,0)", "D(2,2)-(3,1)",
       "U(0,0)-(0,1)", "X(1,1)-(2,2)", "U(1,1)-(3,3)",
       "U(3,1)-(4,0)", "D(3,1)-(4,0)", "U(2,2)-(3,1)", "D(1,3)-(0,4)",
       "U(2,2)-(2,3)", "D(4,4)-(3,3)" >>

Prefix(seq, n) == { seq[i] : i \in 1..(IF n < Len(seq) THEN n ELSE Len(seq)) }

StartInputs == Prefix(PositionInputs, MaxStart)
TargetInputs == Prefix(PositionInputs, MaxTarget)

\* no call of parseTopologySketch is running
NoBuilder == [ running |-> FALSE ]

-----------------------------------------------------------------------------
(* Initial state: initSolver() has returned *)

Init ==
    /\ CastDuetGraphNodes = parseTopologySketch
    /\ nodeKeys = NodeKeys
    /\ pc = "idle"
    /\ startPosition = undefined
    /\ targetPosition = undefined
    /\ q = << >>
    /\ qlen = 0
    /\ solution = UndefinedSolution
    /\ node = undefined
    /\ fnArg = [ fn |-> "none" ]
    /\ fnRet = [ fn |-> "none" ]
    /\ builder = NoBuilder
    /\ initCalls = 1
    /\ calls = 0

-----------------------------------------------------------------------------
(* findSolution and dijkstra *)

\* the calls of findSolution that a run makes
MaxCalls == 2

\* as StartWalk, with the solution array started empty
StartWalk_NoTarget ==
    /\ node' = IF targetPosition \in DOMAIN CastDuetGraphNodes THEN targetPosition ELSE undefined
    /\ solution' = << >>
    /\ pc' = "walk"
    /\ q' = << >>
    /\ qlen' = 0

\* dijkstra has returned: var node = CastDuetGraphNodes[targetPosition];
\* solution = [targetPosition]; the locals of dijkstra are gone
StartWalk ==
    /\ node' = IF targetPosition \in DOMAIN CastDuetGraphNodes THEN targetPosition ELSE undefined
    /\ solution' = << targetPosition >>
    /\ pc' = "walk"
    /\ q' = << >>
    /\ qlen' = 0

\* the exception leaves findSolution: no value is returned
Throw ==
    /\ pc' = "thrown"
    /\ solution' = UndefinedSolution
    /\ node' = undefined
    /\ q' = << >>
    /\ qlen' = 0

\* as BothParse, with the target string not checked
BothParse_StartOnly(start, target) == parsePosition(start) # UndefinedPos

\* parsePosition(startPosition) && parsePosition(targetPosition)
BothParse(start, target) ==
    parsePosition(start) # UndefinedPos /\ parsePosition(target) # UndefinedPos

\* as ResetNodes, with a finite distance left as it is
ResetNodes_KeepReached(nodes) ==
    [ n \in DOMAIN nodes |->
        IF IsNum(nodes[n].dist)
        THEN [ nodes[n] EXCEPT !.prev = undefined ]
        ELSE [ nodes[n] EXCEPT !.dist = Infinity, !.prev = undefined ] ]

\* the initialisation loop of dijkstra over the node table
ResetNodes(nodes) ==
    [ n \in DOMAIN nodes |-> [ nodes[n] EXCEPT !.dist = Infinity, !.prev = undefined ] ]

\* the call: the parse check, and the initialisation of dijkstra (q gets
\* the keys of the node table in their order)
FindSolution(start, target) ==
    /\ pc \in {"idle", "returned", "thrown"}
    /\ calls < MaxCalls
    /\ calls' = calls + 1
    /\ startPosition' = start
    /\ targetPosition' = target
    /\ UNCHANGED <<nodeKeys, fnArg, fnRet, builder, initCalls>>
    /\ IF BothParse(start, target)
       THEN IF start \in DOMAIN CastDuetGraphNodes
            THEN /\ CastDuetGraphNodes' =
                        [ ResetNodes(CastDuetGraphNodes) EXCEPT ![start].dist = Num(0) ]
                 /\ q' = nodeKeys
                 /\ qlen' = Len(nodeKeys)
                 /\ solution' = UndefinedSolution
                 /\ node' = undefined
                 /\ pc' = "loop"
            ELSE \* nodes[sourceNode] is undefined: TypeError
                 /\ CastDuetGraphNodes' = ResetNodes(CastDuetGraphNodes)
                 /\ Throw
       ELSE /\ pc' = "returned"
            /\ solution' = UndefinedSolution
            /\ node' = undefined
            /\ q' = << >>
            /\ qlen' = 0
            /\ UNCHANGED CastDuetGraphNodes

\* the positions in q that the scan can select: nodes[n].dist < +Infinity
FiniteKeys(nodes, unvisited) ==
    { i \in 1..Len(unvisited) : Less(nodes[unvisited[i]].dist, Infinity) }

\* as FirstOfLeast, taking the first position whatever its distance
FirstOfLeast_FirstFinite(nodes, unvisited, finite) ==
    CHOOSE i \in finite : \A j \in finite : i <= j

\* the position the scan ends with: u changes only on a strictly smaller
\* distance, so it is the first position, in for-in order, of minimum distance
FirstOfLeast(nodes, unvisited, finite) ==
    CHOOSE i \in finite :
        \A j \in finite :
            /\ ~Less(nodes[unvisited[j]].dist, nodes[unvisited[i]].dist)
            /\ (nodes[unvisited[j]].dist = nodes[unvisited[i]].dist => i <= j)

\* the position in q of the node u found by the scan of q; 0 when no key
\* of q has a finite distance (u stays undefined)
MinDistNode(nodes, unvisited) ==
    IF FiniteKeys(nodes, unvisited) = {} THEN 0
    ELSE CHOOSE i \in { FirstOfLeast(nodes, unvisited, finite) :
                            finite \in { FiniteKeys(nodes, unvisited) } } : TRUE

\* as ScanNeighbors, with u left in q
ScanNeighbors_KeepNode(i, u, alt) ==
    IF CastDuetGraphNodes[u].connectsTo \subseteq DOMAIN CastDuetGraphNodes
    THEN /\ CastDuetGraphNodes' =
              [ v \in DOMAIN CastDuetGraphNodes |->
                  IF /\ v \in CastDuetGraphNodes[u].connectsTo
                     /\ Less(alt, CastDuetGraphNodes[v].dist)
                  THEN [ CastDuetGraphNodes[v] EXCEPT !.dist = alt, !.prev = u ]
                  ELSE CastDuetGraphNodes[v] ]
         /\ q' = q
         /\ qlen' = qlen - 1
         /\ UNCHANGED <<pc, solution, node>>
    ELSE /\ Throw
         /\ UNCHANGED CastDuetGraphNodes

\* the scan of the neighbors v of u = q[i], then delete q[u]; qlen--
ScanNeighbors(i, u, alt) ==
    IF CastDuetGraphNodes[u].connectsTo \subseteq DOMAIN CastDuetGraphNodes
    THEN /\ CastDuetGraphNodes' =
              [ v \in DOMAIN CastDuetGraphNodes |->
                  IF /\ v \in CastDuetGraphNodes[u].connectsTo
                     /\ Less(alt, CastDuetGraphNodes[v].dist)
                  THEN [ CastDuetGraphNodes[v] EXCEPT !.dist = alt, !.prev = u ]
                  ELSE CastDuetGraphNodes[v] ]
         /\ q' = SubSeq(q, 1, i - 1) \o SubSeq(q, i + 1, Len(q))
         /\ qlen' = qlen - 1
         /\ UNCHANGED <<pc, solution, node>>
    ELSE \* nodes[v] is undefined: TypeError
         /\ Throw
         /\ UNCHANGED CastDuetGraphNodes

\* as DijkstraIteration, with every edge counted as two moves
DijkstraIteration_CostTwo ==
    /\ pc = "loop"
    /\ qlen > 0
    /\ UNCHANGED <<nodeKeys, startPosition, targetPosition, fnArg, fnRet, builder, initCalls, calls>>
    /\ \E i \in { MinDistNode(CastDuetGraphNodes, q) } :
          IF i = 0
          THEN /\ StartWalk
               /\ UNCHANGED CastDuetGraphNodes
          ELSE \E u \in { q[i] } :
                  \E alt \in { Num(CastDuetGraphNodes[u].dist.value + 2) } :
                      ScanNeighbors(i, u, alt)

\* one iteration of the while loop of dijkstra
DijkstraIteration ==
    /\ pc = "loop"
    /\ qlen > 0
    /\ UNCHANGED <<nodeKeys, startPosition, targetPosition, fnArg, fnRet, builder, initCalls, calls>>
    /\ \E i \in { MinDistNode(CastDuetGraphNodes, q) } :
          IF i = 0
          THEN \* u is undefined: return without a value
               /\ StartWalk
               /\ UNCHANGED CastDuetGraphNodes
          ELSE \E u \in { q[i] } :
                  \E alt \in { Num(CastDuetGraphNodes[u].dist.value + 1) } :
                      ScanNeighbors(i, u, alt)

\* the while loop of dijkstra ends
DijkstraReturn ==
    /\ pc = "loop"
    /\ qlen = 0
    /\ StartWalk
    /\ UNCHANGED <<CastDuetGraphNodes, nodeKeys, startPosition, targetPosition, fnArg, fnRet,
                   builder, initCalls, calls>>

\* as WalkStep, with a target that has no predecessor taken as not reached
WalkStep_NoPrevFails ==
    /\ pc = "walk"
    /\ UNCHANGED <<CastDuetGraphNodes, nodeKeys, startPosition, targetPosition, fnArg, fnRet,
                   builder, initCalls, calls>>
    /\ IF node = undefined
       THEN Throw
       ELSE IF CastDuetGraphNodes[node].prev # undefined
            THEN /\ solution' = << CastDuetGraphNodes[node].prev >> \o solution
                 /\ node' = IF CastDuetGraphNodes[node].prev \in DOMAIN CastDuetGraphNodes
                            THEN CastDuetGraphNodes[node].prev ELSE undefined
                 /\ UNCHANGED <<pc, q, qlen>>
            ELSE /\ pc' = "returned"
                 /\ node' = undefined
                 /\ solution' = IF Len(solution) = 1 THEN UndefinedSolution ELSE solution
                 /\ UNCHANGED <<q, qlen>>

\* one evaluation of while( node.prev ), with the loop body or the return
WalkStep ==
    /\ pc = "walk"
    /\ UNCHANGED <<CastDuetGraphNodes, nodeKeys, startPosition, targetPosition, fnArg, fnRet,
                   builder, initCalls, calls>>
    /\ IF node = undefined
       THEN \* node.prev of undefined: TypeError
            Throw
       ELSE IF CastDuetGraphNodes[node].prev # undefined
            THEN /\ solution' = << CastDuetGraphNodes[node].prev >> \o solution
                 /\ node' = IF CastDuetGraphNodes[node].prev \in DOMAIN CastDuetGraphNodes
                            THEN CastDuetGraphNodes[node].prev ELSE undefined
                 /\ UNCHANGED <<pc, q, qlen>>
            ELSE /\ pc' = "returned"
                 /\ node' = undefined
                 /\ UNCHANGED <<solution, q, qlen>>

Next ==
    \/ \E start \in StartInputs, target \in TargetInputs : FindSolution(start, target)
    \/ DijkstraIteration
    \/ DijkstraReturn
    \/ WalkStep

Spec == Init /\ [][Next]_vars

\* a call of findSolution runs to completion: the loop of dijkstra and the
\* walk of findSolution take their next step whenever they have one
SpecLive ==
    /\ Spec
    /\ WF_vars(DijkstraIteration)
    /\ WF_vars(DijkstraReturn)
    /\ WF_vars(WalkStep)

-----------------------------------------------------------------------------
(* The pure functions of the position model, called on their own: the      *)
(* initial state draws the arguments, the actions apply the function.      *)

\* coordinates written into the strings given to parsePosition: 0 .. MaxDigit
MaxDigit == 5
\* cells given to getNodeName: Margin cells around the enumerated grid
Margin == 1

\* the text <o>(<a>,<b>)-(<c>,<d>), written out character by character
Template(o, a, b, c, d) ==
    o \o "(" \o ToString(a) \o "," \o ToString(b) \o ")" \o "-" \o
         "(" \o ToString(c) \o "," \o ToString(d) \o ")"

OtherStrings ==
    { "FREE", "", "free", "FREE ", " FREE", "undefined",
      "U(1,1)-(2,2) ", " U(1,1)-(2,2)", "U(1,1)(2,2)", "U(1,1)-(2,2",
      "U1,1-2,2", "U(11,1)-(2,2)", "u(1,1)-(2,2)", "d(1,1)-(2,2)",
      "U(-1,1)-(0,1)", "UD(1,1)-(2,2)", "(1,1)-(2,2)", "U(1;1)-(2;2)",
      "U(a,1)-(2,2)", "U(1,1)_(2,2)", "U[1,1]-[2,2]", "U(1,1)-(2,2)-(3,3)",
      "U(1, 1)-(2, 2)", "U(1,1) - (2,2)" }

ParseInputs ==
    { [ fn |-> "parsePosition", form |-> "template",
        str |-> Template(o, c[1], c[2], c[3], c[4]),
        pegPos |-> o, pegCol |-> c[1], pegRow |-> c[2], ringCol |-> c[3], ringRow |-> c[4] ] :
        o \in {"U", "D", "X"}, c \in (0..MaxDigit) \X (0..MaxDigit) \X (0..MaxDigit) \X (0..MaxDigit) }
    \cup { [ fn |-> "parsePosition", form |-> "other", str |-> str ] : str \in OtherStrings }

NodeNameInputs ==
    LET coords == (GridMin - Margin)..(GridMax + Margin)
    IN  { [ fn |-> "getNodeName", pegPos |-> o,
            pegCol |-> c[1], pegRow |-> c[2], ringCol |-> c[3], ringRow |-> c[4] ] :
            o \in {PegPosUp, PegPosDown}, c \in coords \X coords \X coords \X coords }

CellDentsInputs ==
    LET coords == (GridMin - Margin)..(GridMax + Margin)
    IN  { [ fn |-> "getCellDents", col |-> c[1], row |-> c[2] ] : c \in coords \X coords }

InitFn ==
    /\ CastDuetGraphNodes = parseTopologySketch
    /\ nodeKeys = NodeKeys
    /\ pc = "fn"
    /\ startPosition = undefined
    /\ targetPosition = undefined
    /\ q = << >>
    /\ qlen = 0
    /\ solution = UndefinedSolution
    /\ node = undefined
    /\ fnArg \in ParseInputs \cup NodeNameInputs \cup CellDentsInputs
    /\ fnRet = [ fn |-> "none" ]
    /\ builder = NoBuilder
    /\ initCalls = 1
    /\ calls = 0

FnFrame == UNCHANGED <<CastDuetGraphNodes, nodeKeys, pc, startPosition, targetPosition,
                       q, qlen, solution, node, fnArg, builder, initCalls, calls>>

\* pos = parsePosition(str)
CallParsePosition ==
    /\ pc = "fn"
    /\ fnArg.fn = "parsePosition"
    /\ fnRet.fn = "none"
    /\ fnRet' = [ fn |-> "parsePosition", pos |-> parsePosition(fnArg.str) ]
    /\ FnFrame

\* name = getRingName of the fields of a parsed ring placement
CallGetRingName ==
    /\ pc = "fn"
    /\ fnRet.fn = "parsePosition"
    /\ fnRet.pos # UndefinedPos
    /\ ~fnRet.pos.isFree
    /\ fnRet' = [ fn |-> "getRingName", pos |-> fnRet.pos,
                  name |-> getRingName(fnRet.pos.pegPos, fnRet.pos.pegCol, fnRet.pos.pegRow,
                                       fnRet.pos.ringCol, fnRet.pos.ringRow) ]
    /\ FnFrame

\* name = getNodeName(pegPos, pegCol, pegRow, ringCol, ringRow)
CallGetNodeName ==
    /\ pc = "fn"
    /\ fnArg.fn = "getNodeName"
    /\ fnRet.fn = "none"
    /\ fnRet' = [ fn |-> "getNodeName",
                  name |-> getNodeName(fnArg.pegPos, fnArg.pegCol, fnArg.pegRow,
                                       fnArg.ringCol, fnArg.ringRow) ]
    /\ FnFrame

\* dents = getCellDents(col, row)
CallGetCellDents ==
    /\ pc = "fn"
    /\ fnArg.fn = "getCellDents"
    /\ fnRet.fn = "none"
    /\ fnRet' = [ fn |-> "getCellDents", dents |-> getCellDents(fnArg.col, fnArg.row) ]
    /\ FnFrame

NextFn == CallParsePosition \/ CallGetRingName \/ CallGetNodeName \/ CallGetCellDents

SpecFn == InitFn /\ [][NextFn]_vars

-----------------------------------------------------------------------------
(* The construction of the graph, step by step: initSolver() calls         *)
(* parseTopologySketch, whose loops run one iteration per action.          *)

\* how many times initSolver is called
MaxInitCalls == 2

\* new Node(ring)
Node(ring) ==
    [ ring |-> ring,
      name |-> getNodeName(ring.pegPos, ring.pegCol, ring.pegRow, ring.ringCol, ring.ringRow),
      connectsTo |-> {} ]

\* the script is loaded and initSolver has not been called
InitBuild ==
    /\ CastDuetGraphNodes = << >>
    /\ nodeKeys = << >>
    /\ pc = "start"
    /\ startPosition = undefined
    /\ targetPosition = undefined
    /\ q = << >>
    /\ qlen = 0
    /\ solution = UndefinedSolution
    /\ node = undefined
    /\ fnArg = [ fn |-> "none" ]
    /\ fnRet = [ fn |-> "none" ]
    /\ builder = NoBuilder
    /\ initCalls = 0
    /\ calls = 0

BuildFrame == UNCHANGED <<startPosition, targetPosition, q, qlen, solution, node, fnArg, fnRet>>

\* initSolver() is called and parseTopologySketch starts: nodes holds the
\* FREE entry alone
InitSolver ==
    /\ pc \in {"start", "idle"}
    /\ initCalls < MaxInitCalls
    /\ initCalls' = initCalls + 1
    /\ UNCHANGED calls
    /\ builder' = [ running |-> TRUE,
                    nodes |-> (FreeRingName :> [ ring |-> [ name |-> FreeRingName ],
                                                 name |-> FreeRingName,
                                                 connectsTo |-> {} ]),
                    keys |-> << FreeRingName >>,
                    col |-> GridMin,
                    row |-> GridMin,
                    count |-> 0 ]
    /\ pc' = "generate"
    /\ UNCHANGED <<CastDuetGraphNodes, nodeKeys>>
    /\ BuildFrame

\* rings.forEach( nodes[ node.name ] = node ): the table after the nodes of
\* the rings are stored in order, a later node replacing an earlier one of
\* the same name
StoreNodes(nodes, made) ==
    [ n \in DOMAIN nodes \cup { made[k].name : k \in 1..Len(made) } |->
        IF \E k \in 1..Len(made) : made[k].name = n
        THEN made[CHOOSE k \in 1..Len(made) :
                    /\ made[k].name = n
                    /\ \A j \in (k + 1)..Len(made) : made[j].name # n]
        ELSE nodes[n] ]

\* the keys after the same stores: a name not yet a key is appended where
\* it is first stored
StoreKeys(nodes, keys, made) ==
    LET isNew(k) == /\ made[k].name \notin DOMAIN nodes
                    /\ \A j \in 1..(k - 1) : made[j].name # made[k].name
        RECURSIVE from(_)
        from(k) == IF k > Len(made) THEN << >>
                   ELSE (IF isNew(k) THEN << made[k].name >> ELSE << >>) \o from(k + 1)
    IN  keys \o from(1)

\* as GenerateForCell, with no node made for a name that the node table of
\* the solver already holds
GenerateForCell_SkipKnown ==
    /\ pc = "generate"
    /\ \E rings \in { generateAllRingsForCell(builder.col, builder.row) } :
       \E all \in { [ k \in 1..Len(rings) |-> Node(rings[k]) ] } :
       \E made \in { SelectSeq(all, LAMBDA m : m.name \notin DOMAIN CastDuetGraphNodes) } :
          builder' = [ builder EXCEPT
                         !.nodes = StoreNodes(builder.nodes, made),
                         !.keys = StoreKeys(builder.nodes, builder.keys, made),
                         !.row = IF builder.row < GridMax THEN builder.row + 1 ELSE GridMin,
                         !.col = IF builder.row < GridMax THEN builder.col ELSE builder.col + 1 ]
    /\ pc' = IF builder.row = GridMax /\ builder.col = GridMax THEN "connect" ELSE "generate"
    /\ UNCHANGED <<CastDuetGraphNodes, nodeKeys, initCalls, calls>>
    /\ BuildFrame

\* one iteration of the loops over col and row: the nodes of the 16 rings
\* of the cell are stored
GenerateForCell ==
    /\ pc = "generate"
    /\ \E rings \in { generateAllRingsForCell(builder.col, builder.row) } :
       \E made \in { [ k \in 1..Len(rings) |-> Node(rings[k]) ] } :
          builder' = [ builder EXCEPT
                         !.nodes = StoreNodes(builder.nodes, made),
                         !.keys = StoreKeys(builder.nodes, builder.keys, made),
                         !.row = IF builder.row < GridMax THEN builder.row + 1 ELSE GridMin,
                         !.col = IF builder.row < GridMax THEN builder.col ELSE builder.col + 1 ]
    /\ pc' = IF builder.row = GridMax /\ builder.col = GridMax THEN "connect" ELSE "generate"
    /\ UNCHANGED <<CastDuetGraphNodes, nodeKeys, initCalls, calls>>
    /\ BuildFrame

\* one iteration of for( var n in nodes ): the connections of the node n,
\* and the edge from FREE to it when it is connected to FREE
ConnectNode ==
    /\ pc = "connect"
    /\ builder.count < Len(builder.keys)
    /\ \E n \in { builder.keys[builder.count + 1] } :
          IF n = FreeRingName
          THEN builder' = [ builder EXCEPT !.count = builder.count + 1 ]
          ELSE \E conn \in { builder.nodes[n].connectsTo
                                \cup getNodeConnections(builder.nodes[n].ring) } :
                  builder' = [ builder EXCEPT
                      !.count = builder.count + 1,
                      !.nodes = [ m \in DOMAIN builder.nodes |->
                          IF m = n
                          THEN [ builder.nodes[m] EXCEPT !.connectsTo = conn ]
                          ELSE IF m = FreeRingName /\ FreeRingName \in conn
                          THEN [ builder.nodes[m] EXCEPT
                                    !.connectsTo = builder.nodes[m].connectsTo \cup {n} ]
                          ELSE builder.nodes[m] ] ]
    /\ UNCHANGED <<CastDuetGraphNodes, nodeKeys, pc, initCalls, calls>>
    /\ BuildFrame

\* return nodes: the table becomes CastDuetGraphNodes of the new solver
ReturnNodes ==
    /\ pc = "connect"
    /\ builder.count = Len(builder.keys)
    /\ CastDuetGraphNodes' =
          [ n \in DOMAIN builder.nodes |->
              [ name |-> builder.nodes[n].name,
                connectsTo |-> builder.nodes[n].connectsTo,
                dist |-> UndefinedNumber,
                prev |-> undefined ] ]
    /\ nodeKeys' = builder.keys
    /\ builder' = NoBuilder
    /\ pc' = "idle"
    /\ UNCHANGED <<initCalls, calls>>
    /\ BuildFrame

NextBuild == InitSolver \/ GenerateForCell \/ ConnectNode \/ ReturnNodes

SpecBuild == InitBuild /\ [][NextBuild]_vars

-----------------------------------------------------------------------------
(* Properties *)

connectsTo(a) == CastDuetGraphNodes[a].connectsTo

IsEdgePath(path) ==
    \A i \in 1..(Len(path) - 1) : path[i + 1] \in connectsTo(path[i])

\* the least number of edges of a path from a node of frontier to target,
\* by breadth-first levels; -1 when there is no such path
RECURSIVE Levels(_, _, _, _)
Levels(frontier, seen, target, depth) ==
    IF target \in frontier THEN depth
    ELSE IF frontier = {} THEN -1
    ELSE Levels((UNION { connectsTo(n) : n \in frontier }) \ seen,
                seen \cup UNION { connectsTo(n) : n \in frontier },
                target, depth + 1)

MinMoves(source, target) == Levels({source}, {source}, target, 0)

\* the nodes from which FREE can be reached along edges
RECURSIVE ReachFrom(_)
ReachFrom(reached) ==
    LET more == { n \in DOMAIN CastDuetGraphNodes : connectsTo(n) \cap reached # {} } \ reached
    IN  IF more = {} THEN reached ELSE ReachFrom(reached \cup more)

CanReachFree == ReachFrom({FreeRingName})

Returned == pc = "returned"
BothAreNodes ==
    /\ startPosition \in DOMAIN CastDuetGraphNodes
    /\ targetPosition \in DOMAIN CastDuetGraphNodes

\* C1: when findSolution returns for two node names with the target
\* reachable from the source, the result starts at the source, ends at the
\* target, follows edges of the graph and has the least possible number of moves
C1_ShortestPath ==
    (Returned /\ BothAreNodes /\ MinMoves(startPosition, targetPosition) >= 0) =>
        /\ solution # UndefinedSolution
        /\ Head(solution) = startPosition
        /\ solution[Len(solution)] = targetPosition
        /\ IsEdgePath(solution)
        /\ Len(solution) - 1 = MinMoves(startPosition, targetPosition)

\* findSolution("D(3,1)-(3,0)", "D(2,2)-(3,1)") has returned a path of several moves
C1_Witness ==
    /\ Returned
    /\ startPosition = "D(3,1)-(3,0)"
    /\ targetPosition = "D(2,2)-(3,1)"
    /\ Len(solution) > 2
    /\ IsEdgePath(solution)

\* C2: a call of findSolution with a start or target string that
\* parsePosition rejects returns undefined at once and leaves the node table
\* untouched (the search is not run)
C2_RejectedReturnsUndefined ==
    [][ ( /\ pc \in {"idle", "returned", "thrown"}
          /\ \/ parsePosition(startPosition') = UndefinedPos
             \/ parsePosition(targetPosition') = UndefinedPos )
        => ( /\ pc' = "returned"
             /\ solution' = UndefinedSolution
             /\ CastDuetGraphNodes' = CastDuetGraphNodes ) ]_vars

\* a call with a rejected target has returned undefined after an earlier
\* search, whose distances are still in the node table
C2_Witness ==
    /\ Returned
    /\ parsePosition(startPosition) # UndefinedPos
    /\ parsePosition(targetPosition) = UndefinedPos
    /\ solution = UndefinedSolution
    /\ IsNum(CastDuetGraphNodes[FreeRingName].dist)

\* C3: findSolution never raises an exception
C3_NeverThrows == pc # "thrown"

\* C5: findSolution(s, s) for a node name s returns the one-element sequence [s]
C5_SameSourceAndTarget ==
    (Returned /\ BothAreNodes /\ startPosition = targetPosition) =>
        solution = << startPosition >>

\* findSolution("D(2,2)-(3,1)", "D(2,2)-(3,1)") has returned
C5_Witness ==
    /\ Returned
    /\ startPosition = "D(2,2)-(3,1)"
    /\ targetPosition = "D(2,2)-(3,1)"
    /\ solution = << "D(2,2)-(3,1)" >>

\* C6: in the graph that construction returns, FREE can be reached along
\* edges from every other node
C6_Connected ==
    pc = "idle" => DOMAIN CastDuetGraphNodes \subseteq CanReachFree

\* the graph is built and some node is not a neighbour of FREE, so that
\* its path to FREE has several edges
C6_Witness ==
    /\ pc = "idle"
    /\ \E n \in DOMAIN CastDuetGraphNodes :
          /\ n # FreeRingName
          /\ FreeRingName \notin connectsTo(n)
          /\ n \in CanReachFree

\* the cell is outside the frame, whose cells have both coordinates in 1..3
Outside(col, row) == ~(col \in 1..3 /\ row \in 1..3)

\* the two cells are a king's-move step apart
KingStep(pegCol, pegRow, ringCol, ringRow) ==
    /\ ringCol - pegCol \in -1..1
    /\ ringRow - pegRow \in -1..1
    /\ <<ringCol, ringRow>> # <<pegCol, pegRow>>

\* the string has the form <U|D>(c,r)-(c,r) with coordinates in 0..4 and
\* the two cells a king's-move step apart
WellFormedPlacement(arg) ==
    /\ arg.form = "template"
    /\ arg.pegPos \in {"U", "D"}
    /\ {arg.pegCol, arg.pegRow, arg.ringCol, arg.ringRow} \subseteq 0..4
    /\ KingStep(arg.pegCol, arg.pegRow, arg.ringCol, arg.ringRow)

\* C7: parsePosition accepts a string exactly when it is "FREE" or a
\* well-formed placement with single-digit coordinates in 0..4 and the peg
\* and ring cells a king's-move step apart
C7_ParseAcceptsExactly ==
    fnRet.fn = "parsePosition" =>
        ( (fnRet.pos # UndefinedPos) <=> (fnArg.str = "FREE" \/ WellFormedPlacement(fnArg)) )

\* parsePosition has rejected "U(1,1)-(3,3)"
C7_Witness ==
    /\ fnRet.fn = "parsePosition"
    /\ fnArg.str = "U(1,1)-(3,3)"
    /\ fnRet.pos = UndefinedPos

\* C8: encoding the fields decoded from an accepted ring placement gives
\* the string back
C8_RoundTrip ==
    fnRet.fn = "getRingName" => fnRet.name = fnArg.str

\* "D(3,1)-(3,0)" has been decoded and encoded again
C8_Witness ==
    /\ fnRet.fn = "getRingName"
    /\ fnArg.str = "D(3,1)-(3,0)"
    /\ fnRet.pos.pegCol = 3
    /\ fnRet.pos.ringRow = 0
    /\ fnRet.name = "D(3,1)-(3,0)"

\* C9: the node name is "FREE" when the peg cell and the ring cell are both
\* outside the frame, and the encoded ring name otherwise
C9_FreeCollapse ==
    fnRet.fn = "getNodeName" =>
        fnRet.name = IF /\ Outside(fnArg.pegCol, fnArg.pegRow)
                        /\ Outside(fnArg.ringCol, fnArg.ringRow)
                     THEN "FREE"
                     ELSE Template(fnArg.pegPos, fnArg.pegCol, fnArg.pegRow,
                                   fnArg.ringCol, fnArg.ringRow)

\* getNodeName has collapsed a placement with both cells outside to FREE
C9_Witness ==
    /\ fnRet.fn = "getNodeName"
    /\ fnArg.pegCol = 4 /\ fnArg.pegRow = 2
    /\ fnArg.ringCol = 5 /\ fnArg.ringRow = 1
    /\ fnRet.name = "FREE"

\* the name of the 180 degrees flip of the ring of a node
FlipName(ring) ==
    Template(IF ring.pegPos = "U" THEN "D" ELSE "U",
             ring.ringCol, ring.ringRow, ring.pegCol, ring.pegRow)

\* C10: between calls of findSolution, every non-FREE node is connected to
\* its 180 degrees flip (opposite orientation, peg and ring cells swapped),
\* and the flip is itself a non-FREE node of the graph
C10_FlipEdge ==
    pc \in {"idle", "returned", "thrown"} =>
        \A n \in DOMAIN CastDuetGraphNodes \ {FreeRingName} :
            /\ FlipName(NodeRing[n]) \in connectsTo(n)
            /\ FlipName(NodeRing[n]) \in DOMAIN CastDuetGraphNodes
            /\ FlipName(NodeRing[n]) # FreeRingName

\* the graph is built and some node, with no usable dent around its peg
\* cell, has its flip as only neighbour
C10_Witness ==
    /\ pc = "idle"
    /\ \E n \in DOMAIN CastDuetGraphNodes \ {FreeRingName} :
          /\ connectsTo(n) = { FlipName(NodeRing[n]) }
          /\ getCellDents(NodeRing[n].pegCol, NodeRing[n].pegRow) # << >>

\* C11: between calls of findSolution every node of the graph is in the
\* state it had when the construction returned (no dist, no prev, the same
\* connectsTo): no call changes the shared graph
C11_GraphReadOnly ==
    pc \in {"idle", "returned", "thrown"} => CastDuetGraphNodes = parseTopologySketch

\* C12: when a second call of initSolver has built its graph, the new node
\* table has the node names of the table built by the call before, and
\* every node has the same adjacency set in both
C12_BuildIdempotent ==
    [][ (pc = "connect" /\ pc' = "idle" /\ initCalls > 1) =>
            /\ DOMAIN CastDuetGraphNodes' = DOMAIN CastDuetGraphNodes
            /\ \A n \in DOMAIN CastDuetGraphNodes :
                  CastDuetGraphNodes'[n].connectsTo = CastDuetGraphNodes[n].connectsTo ]_vars

\* the second call of initSolver has returned a graph with edges
C12_Witness ==
    /\ pc = "idle"
    /\ initCalls = 2
    /\ Cardinality(DOMAIN CastDuetGraphNodes) > 1
    /\ \A n \in DOMAIN CastDuetGraphNodes : CastDuetGraphNodes[n].connectsTo # {}

\* the graph built step by step is the graph of parseTopologySketch, with
\* its keys in the same order
BuildMatches ==
    pc = "idle" => (CastDuetGraphNodes = parseTopologySketch /\ nodeKeys = NodeKeys)

\* the call findSolution("U(3,1)-(4,1)", "FREE") has returned
FreeingReturned ==
    /\ Returned
    /\ startPosition = "U(3,1)-(4,1)"
    /\ targetPosition = "FREE"

\* C13 as stated: findSolution("U(3,1)-(4,1)", "FREE") returns a sequence
\* from "U(3,1)-(4,1)" to "FREE" along edges of the graph that has at most
\* 2 moves
C13_TwoMoveDisassembly ==
    FreeingReturned =>
        /\ solution # UndefinedSolution
        /\ Head(solution) = "U(3,1)-(4,1)"
        /\ solution[Len(solution)] = "FREE"
        /\ IsEdgePath(solution)
        /\ Len(solution) - 1 <= 2

\* C13, amended: findSolution("U(3,1)-(4,1)", "FREE") returns a sequence
\* from "U(3,1)-(4,1)" to "FREE" along edges of the graph, of minimum
\* length, and that minimum is 30 moves
C13_FreeingPath ==
    FreeingReturned =>
        /\ solution # UndefinedSolution
        /\ Head(solution) = "U(3,1)-(4,1)"
        /\ solution[Len(solution)] = "FREE"
        /\ IsEdgePath(solution)
        /\ Len(solution) - 1 = MinMoves("U(3,1)-(4,1)", "FREE")
        /\ Len(solution) - 1 = 30

\* the call has returned its sequence of 31 positions
C13_Witness ==
    /\ FreeingReturned
    /\ Len(solution) = 31
    /\ solution[31] = "FREE"

\* C14: findSolution("D(3,1)-(3,0)", "D(2,2)-(3,1)") returns a non-empty
\* sequence that starts with "D(3,1)-(3,0)", ends with "D(2,2)-(3,1)" and
\* follows edges of the graph (legal moves)
C14_FourDotPath ==
    (Returned /\ startPosition = "D(3,1)-(3,0)" /\ targetPosition = "D(2,2)-(3,1)") =>
        /\ solution # UndefinedSolution
        /\ Len(solution) > 1
        /\ Head(solution) = "D(3,1)-(3,0)"
        /\ solution[Len(solution)] = "D(2,2)-(3,1)"
        /\ IsEdgePath(solution)

\* the call has returned a sequence of 35 positions ending at the 4-dot position
C14_Witness ==
    /\ Returned
    /\ startPosition = "D(3,1)-(3,0)"
    /\ targetPosition = "D(2,2)-(3,1)"
    /\ Len(solution) = 35
    /\ solution[35] = "D(2,2)-(3,1)"

\* the least number of edges from source to every node that can be reached
\* from it, by breadth-first levels
RECURSIVE BfsLevels(_, _, _, _)
BfsLevels(frontier, seen, depth, acc) ==
    IF frontier = {} THEN acc
    ELSE LET next == (UNION { connectsTo(n) : n \in frontier }) \ seen
         IN  BfsLevels(next, seen \cup next, depth + 1,
                       [ n \in DOMAIN acc \cup frontier |->
                           IF n \in frontier THEN depth ELSE acc[n] ])

MinMovesFrom(source) == BfsLevels({source}, {source}, 0, [ n \in {} |-> 0 ])

\* dijkstra has just returned to findSolution
DijkstraDone == pc = "walk" /\ Len(solution) = 1

\* C15: when dijkstra returns, the source has distance 0 and no
\* predecessor; every node that can be reached from the source has its least
\* number of edges as distance; every other node has infinite distance and
\* no predecessor; and the predecessor p of a reached node n other than the
\* source has n in connectsTo(p) and distance(p) + 1 = distance(n)
C15_ShortestDistances ==
    DijkstraDone =>
        \A moves \in { MinMovesFrom(startPosition) } :
            /\ CastDuetGraphNodes[startPosition].dist = Num(0)
            /\ CastDuetGraphNodes[startPosition].prev = undefined
            /\ \A n \in DOMAIN CastDuetGraphNodes :
                  IF n \in DOMAIN moves
                  THEN /\ CastDuetGraphNodes[n].dist = Num(moves[n])
                       /\ n # startPosition =>
                            /\ CastDuetGraphNodes[n].prev \in DOMAIN moves
                            /\ n \in connectsTo(CastDuetGraphNodes[n].prev)
                            /\ moves[CastDuetGraphNodes[n].prev] + 1 = moves[n]
                            /\ CastDuetGraphNodes[CastDuetGraphNodes[n].prev].dist
                                  = Num(moves[n] - 1)
                  ELSE /\ CastDuetGraphNodes[n].dist = Infinity
                       /\ CastDuetGraphNodes[n].prev = undefined

\* dijkstra has returned from the source FREE with a node 38 edges away
C15_Witness ==
    /\ DijkstraDone
    /\ startPosition = FreeRingName
    /\ CastDuetGraphNodes[FreeRingName].dist = Num(0)
    /\ \E n \in DOMAIN CastDuetGraphNodes : CastDuetGraphNodes[n].dist = Num(38)

\* the string matches the grammar <U|D>(c,r)-(c,r) with coordinates in 0..4
MatchesGrammar(arg) ==
    /\ arg.form = "template"
    /\ arg.pegPos \in {"U", "D"}
    /\ {arg.pegCol, arg.pegRow, arg.ringCol, arg.ringRow} \subseteq 0..4

\* C16: the two failure kinds of parsePosition are distinguishable values:
\* the result for a string that matches the grammar but whose cells are not
\* a king's-move step apart (InvalidGeometry) differs from the result for
\* the string "X(1,1)-(2,2)", which does not match the grammar
\* (MalformedPosition)
C16_FailureKindsDistinct ==
    ( /\ fnRet.fn = "parsePosition"
      /\ MatchesGrammar(fnArg)
      /\ ~KingStep(fnArg.pegCol, fnArg.pegRow, fnArg.ringCol, fnArg.ringRow) )
    => fnRet.pos # parsePosition("X(1,1)-(2,2)")

\* the rotation index of a ring, from the step from its peg cell to its ring cell
RotationIndex(dx, dy) ==
    CASE <<dx, dy>> = <<-1, -1>> -> 0
      [] <<dx, dy>> = <<-1, 0>> -> 1
      [] <<dx, dy>> = <<-1, 1>> -> 2
      [] <<dx, dy>> = <<0, 1>> -> 3
      [] <<dx, dy>> = <<1, 1>> -> 4
      [] <<dx, dy>> = <<1, 0>> -> 5
      [] <<dx, dy>> = <<1, -1>> -> 6
      [] <<dx, dy>> = <<0, -1>> -> 7

\* the slots tested for a rotation about a dent, per rotation index
TurnSlots(rotation) ==
    CASE rotation = 0 -> {"lt", "br"}
      [] rotation = 1 -> {"tr", "br"}
      [] rotation = 2 -> {"lb", "tr"}
      [] rotation = 3 -> {"lb", "rb"}
      [] rotation = 4 -> {"tl", "rb"}
      [] rotation = 5 -> {"tl", "bl"}
      [] rotation = 6 -> {"rt", "bl"}
      [] rotation = 7 -> {"lt", "rt"}

\* the slots tested for a slide, per rotation index
SlideSlots(rotation) ==
    CASE rotation = 1 -> {"tl", "bl"}
      [] rotation = 3 -> {"lt", "rt"}
      [] rotation = 5 -> {"tr", "br"}
      [] rotation = 7 -> {"lb", "rb"}
      [] OTHER -> {}

\* the step of the peg cell for a move through a slot: towards the side of
\* the cell that the slot is on
SlotDelta(slot) ==
    CASE SubSeq(slot, 1, 1) = "t" -> <<0, 1>>
      [] SubSeq(slot, 1, 1) = "b" -> <<0, -1>>
      [] SubSeq(slot, 1, 1) = "l" -> <<-1, 0>>
      [] SubSeq(slot, 1, 1) = "r" -> <<1, 0>>

\* the marker lets a peg of the given orientation through
Compatible(pegPos, marker) ==
    \/ (pegPos = "U" /\ marker \in {"D", "B"})
    \/ (pegPos = "D" /\ marker \in {"H", "B"})

\* the name of the node of a placement
PlacementName(pegPos, pegCol, pegRow, ringCol, ringRow) ==
    IF Outside(pegCol, pegRow) /\ Outside(ringCol, ringRow)
    THEN "FREE"
    ELSE Template(pegPos, pegCol, pegRow, ringCol, ringRow)

\* the slots of the set whose marker around the peg cell of the ring is
\* present and compatible with the peg orientation
OpenSlots(ring, slots) ==
    { slot \in slots :
        /\ slot \in DOMAIN getCellDents(ring.pegCol, ring.pegRow)
        /\ Compatible(ring.pegPos, getCellDents(ring.pegCol, ring.pegRow)[slot]) }

\* the destinations of the legal rotations about a dent: the peg cell moves
TurnNames(ring) ==
    { PlacementName(ring.pegPos, ring.pegCol + SlotDelta(slot)[1], ring.pegRow + SlotDelta(slot)[2],
                    ring.ringCol, ring.ringRow) :
        slot \in OpenSlots(ring, TurnSlots(RotationIndex(ring.ringCol - ring.pegCol,
                                                          ring.ringRow - ring.pegRow))) }

\* the destinations of the legal slides: the peg cell and the ring cell
\* move together, and only a ring cell outside the frame slides
SlideNames(ring) ==
    IF Outside(ring.ringCol, ring.ringRow)
    THEN { PlacementName(ring.pegPos,
                         ring.pegCol + SlotDelta(slot)[1], ring.pegRow + SlotDelta(slot)[2],
                         ring.ringCol + SlotDelta(slot)[1], ring.ringRow + SlotDelta(slot)[2]) :
             slot \in OpenSlots(ring, SlideSlots(RotationIndex(ring.ringCol - ring.pegCol,
                                                                ring.ringRow - ring.pegRow))) }
    ELSE {}

KingDeltas == ((-1..1) \X (-1..1)) \ { <<0, 0>> }

\* the ring cell moved alone by d is outside the frame and a king's-move
\* step from the peg cell
RingOnlyLegal(ring, d) ==
    /\ Outside(ring.ringCol + d[1], ring.ringRow + d[2])
    /\ KingStep(ring.pegCol, ring.pegRow, ring.ringCol + d[1], ring.ringRow + d[2])

\* the name of the placement with the ring cell moved alone by d
RingOnlyName(ring, d) ==
    Template(ring.pegPos, ring.pegCol, ring.pegRow, ring.ringCol + d[1], ring.ringRow + d[2])

\* the destinations of the free rotations of a ring
RingOnlyNames(ring) ==
    IF Outside(ring.ringCol, ring.ringRow)
    THEN { RingOnlyName(ring, d) : d \in { e \in KingDeltas : RingOnlyLegal(ring, e) } }
    ELSE {}

Idle == pc \in {"idle", "returned", "thrown"}

\* C17: for every non-FREE node, the edges other than the flip and the
\* free rotations are exactly the moves through the slots of its rotation
\* index (the slide slots only with the ring cell outside the frame) whose
\* marker around the peg cell is compatible with the peg orientation; a move
\* keeps the orientation, shifts the peg cell by the step of its slot, and
\* shifts the ring cell by the same step for a slide only
C17_DentMoves ==
    Idle =>
        \A n \in DOMAIN CastDuetGraphNodes \ {FreeRingName} :
            /\ TurnNames(NodeRing[n]) \cup SlideNames(NodeRing[n]) \subseteq connectsTo(n)
            /\ connectsTo(n) \ (RingOnlyNames(NodeRing[n]) \cup {FlipName(NodeRing[n])})
                  \subseteq TurnNames(NodeRing[n]) \cup SlideNames(NodeRing[n])

\* the graph is built; some node has a rotation about a dent among its
\* edges, some node has a slide to a placement inside the frame, and some
\* node has a tested slot whose marker is of the other orientation only
C17_Witness ==
    /\ pc = "idle"
    /\ \E n \in DOMAIN CastDuetGraphNodes \ {FreeRingName} :
          /\ TurnNames(NodeRing[n]) \ {FreeRingName} # {}
          /\ TurnNames(NodeRing[n]) \subseteq connectsTo(n)
    /\ \E n \in DOMAIN CastDuetGraphNodes \ {FreeRingName} :
          /\ SlideNames(NodeRing[n]) \ {FreeRingName} # {}
          /\ SlideNames(NodeRing[n]) \subseteq connectsTo(n)
    /\ \E n \in DOMAIN CastDuetGraphNodes \ {FreeRingName} :
          \E slot \in TurnSlots(NodeRing[n].rotation) :
             /\ slot \in DOMAIN getCellDents(NodeRing[n].pegCol, NodeRing[n].pegRow)
             /\ slot \notin OpenSlots(NodeRing[n], {slot})

\* C18: a non-FREE node whose ring cell is outside the frame is connected
\* to the placement with the ring cell alone moved by a king's-move step
\* exactly when the moved ring cell is outside the frame and a king's-move
\* step from the peg cell; a node whose ring cell is inside the frame has no
\* edge to a placement with its orientation and peg cell and another ring cell
C18_FreeRotation ==
    Idle =>
        \A n \in DOMAIN CastDuetGraphNodes \ {FreeRingName} :
            IF Outside(NodeRing[n].ringCol, NodeRing[n].ringRow)
            THEN \A d \in KingDeltas :
                    (RingOnlyName(NodeRing[n], d) \in connectsTo(n))
                        <=> RingOnlyLegal(NodeRing[n], d)
            ELSE \A d \in ((-5..5) \X (-5..5)) \ { <<0, 0>> } :
                    RingOnlyName(NodeRing[n], d) \notin connectsTo(n)

\* the graph is built; from U(3,1)-(4,1) the ring cell can go to (4,0) and
\* to (4,2) and cannot go to (5,1), and the node D(2,2)-(3,1), with its
\* ring cell inside the frame, has edges
C18_Witness ==
    /\ pc = "idle"
    /\ "U(3,1)-(4,0)" \in connectsTo("U(3,1)-(4,1)")
    /\ "U(3,1)-(4,2)" \in connectsTo("U(3,1)-(4,1)")
    /\ "U(3,1)-(5,1)" \notin connectsTo("U(3,1)-(4,1)")
    /\ ~Outside(NodeRing["D(2,2)-(3,1)"].ringCol, NodeRing["D(2,2)-(3,1)"].ringRow)
    /\ connectsTo("D(2,2)-(3,1)") # {}

\* the sketch position (row, column, counted from 0) of a slot of a cell:
\* the cell (col, row) has its top boundary on sketch row 12 - 4 * row and
\* its left boundary on sketch column 8 * (col - 1); a corner slot is 2
\* columns inside its corner and an edge slot 1 row inside it
SlotRow(row, slot) ==
    CASE slot \in {"tl", "tr"} -> 12 - 4 * row
      [] slot \in {"bl", "br"} -> 16 - 4 * row
      [] slot \in {"lt", "rt"} -> 13 - 4 * row
      [] slot \in {"lb", "rb"} -> 15 - 4 * row

SlotCol(col, slot) ==
    CASE slot \in {"tl", "bl"} -> 8 * col - 6
      [] slot \in {"tr", "br"} -> 8 * col - 2
      [] slot \in {"lt", "lb"} -> 8 * col - 8
      [] slot \in {"rt", "rb"} -> 8 * col

\* the position is one of the 13 rows of 25 characters of the sketch
InSketch(r, c) == r \in 0..12 /\ c \in 0..24

\* C19: for every cell with coordinates in 0..4 and every slot, the slot
\* has marker B when its sketch position is outside the sketch, has the
\* character at that position when it is D, H or B, and is left out of the
\* result for any other character
C19_DentLookup ==
    (fnRet.fn = "getCellDents" /\ fnArg.col \in 0..4 /\ fnArg.row \in 0..4) =>
        \A slot \in {"tl", "tr", "bl", "br", "lt", "lb", "rt", "rb"} :
            IF ~InSketch(SlotRow(fnArg.row, slot), SlotCol(fnArg.col, slot))
            THEN slot \in DOMAIN fnRet.dents /\ fnRet.dents[slot] = "B"
            ELSE \A ch \in { SubSeq(CastDuetTopologySketch[SlotRow(fnArg.row, slot) + 1],
                                     SlotCol(fnArg.col, slot) + 1,
                                     SlotCol(fnArg.col, slot) + 1) } :
                    IF ch \in {"D", "H", "B"}
                    THEN slot \in DOMAIN fnRet.dents /\ fnRet.dents[slot] = ch
                    ELSE slot \notin DOMAIN fnRet.dents

\* the dents of the cell (4,3) have been looked up: H from the sketch for
\* the slot lt, no slot lb (the sketch has "|" there), and B for the six
\* slots outside the sketch
C19_Witness ==
    /\ fnRet.fn = "getCellDents"
    /\ fnArg.col = 4 /\ fnArg.row = 3
    /\ DOMAIN fnRet.dents = {"tl", "tr", "bl", "br", "lt", "rt", "rb"}
    /\ fnRet.dents["lt"] = "H"
    /\ \A slot \in {"tl", "tr", "bl", "br", "rt", "rb"} : fnRet.dents[slot] = "B"

Reverse(path) == [ i \in 1..Len(path) |-> path[Len(path) + 1 - i] ]

\* C20: every edge of the graph has its opposite edge: B in connectsTo(A)
\* implies that B is a node and A in connectsTo(B); the adjacency set of
\* FREE is the set of the nodes whose adjacency set contains FREE; and a
\* returned solution read backwards is a path along edges
C20_EdgeSymmetry ==
    /\ Idle =>
          /\ \A a \in DOMAIN CastDuetGraphNodes :
                \A b \in connectsTo(a) :
                    b \in DOMAIN CastDuetGraphNodes /\ a \in connectsTo(b)
          /\ connectsTo(FreeRingName) =
                { n \in DOMAIN CastDuetGraphNodes : FreeRingName \in connectsTo(n) }
    /\ (Returned /\ solution # UndefinedSolution) => IsEdgePath(Reverse(solution))

\* findSolution("U(3,1)-(4,1)", "FREE") has returned; its last move enters
\* FREE from a node that FREE is connected to, and the solution read
\* backwards is a path from FREE
C20_Witness ==
    /\ Returned
    /\ startPosition = "U(3,1)-(4,1)"
    /\ targetPosition = "FREE"
    /\ Len(solution) > 2
    /\ solution[Len(solution) - 1] \in connectsTo(FreeRingName)
    /\ Head(Reverse(solution)) = "FREE"
    /\ IsEdgePath(Reverse(solution))

\* C21: a call of findSolution on two node names terminates: q never holds
\* more than the keys of the node table and qlen is its size; an iteration
\* of the loop of dijkstra removes exactly one node from q or leaves the
\* loop; the distance strictly decreases along the predecessor links that
\* the walk follows; the walk has taken distance(target) steps when the call
\* returns; and every such call does return
C21_Terminates ==
    /\ [](pc = "loop" =>
            /\ qlen = Len(q)
            /\ Len(q) <= Cardinality(DOMAIN CastDuetGraphNodes))
    /\ [][pc = "loop" =>
            \/ (pc' = "loop" /\ Len(q') = Len(q) - 1 /\ qlen' = qlen - 1)
            \/ pc' = "walk"]_vars
    /\ [][(pc = "walk" /\ pc' = "walk" /\ BothAreNodes) =>
            Less(CastDuetGraphNodes[node'].dist, CastDuetGraphNodes[node].dist)]_vars
    /\ []((Returned /\ BothAreNodes) =>
            Len(solution) - 1 = CastDuetGraphNodes[targetPosition].dist.value)
    /\ ((pc \in {"loop", "walk"} /\ BothAreNodes) ~> Returned)

\* the walk of findSolution("D(3,1)-(3,0)", "D(2,2)-(3,1)") is 9 steps
\* from the target, at a node whose distance is 9 less
C21_Witness ==
    /\ pc = "walk"
    /\ startPosition = "D(3,1)-(3,0)"
    /\ targetPosition = "D(2,2)-(3,1)"
    /\ Len(solution) = 10
    /\ CastDuetGraphNodes[node].dist = Num(CastDuetGraphNodes[targetPosition].dist.value - 9)

\* the names of the placements with coordinates in 0..4 and the two cells
\* a king's-move step apart
PlacementNames ==
    { Template(o, peg[1], peg[2], peg[1] + d[1], peg[2] + d[2]) :
        <<o, peg, d>> \in
            { x \in {"U", "D"} \X ((0..4) \X (0..4)) \X KingDeltas :
                {x[2][1] + x[3][1], x[2][2] + x[3][2]} \subseteq 0..4 } }

IsPlacementName(name) == name \in PlacementNames

\* C22: every name in the adjacency set of a node is a key of the node
\* table, and is FREE or the name of a placement with coordinates in 0..4
\* whose peg and ring cells are a king's-move step apart
C22_EdgeClosure ==
    Idle =>
        \A a \in DOMAIN CastDuetGraphNodes :
            \A b \in connectsTo(a) :
                /\ b \in DOMAIN CastDuetGraphNodes
                /\ b = FreeRingName \/ IsPlacementName(b)

\* the graph is built; the node U(3,1)-(4,1), whose ring cell is on the
\* margin of the enumerated grid, has several edges, all to keys of the table,
\* and the name U(3,1)-(5,1) of a ring cell two steps away is not among them
C22_Witness ==
    /\ pc = "idle"
    /\ Cardinality(connectsTo("U(3,1)-(4,1)")) > 2
    /\ connectsTo("U(3,1)-(4,1)") \subseteq DOMAIN CastDuetGraphNodes
    /\ \E b \in connectsTo("U(3,1)-(4,1)") : IsPlacementName(b)
    /\ ~IsPlacementName("U(3,1)-(5,1)")
    /\ "U(3,1)-(5,1)" \notin DOMAIN CastDuetGraphNodes

\* the names of the placements with the peg cell in 0..4 x 0..4, the ring
\* cell one of its 8 neighbours, and at least one of the two cells inside
\* the frame
FramePlacementNames ==
    { Template(o, peg[1], peg[2], peg[1] + d[1], peg[2] + d[2]) :
        <<o, peg, d>> \in
            { x \in {"U", "D"} \X ((0..4) \X (0..4)) \X KingDeltas :
                ~( /\ Outside(x[2][1], x[2][2])
                   /\ Outside(x[2][1] + x[3][1], x[2][2] + x[3][2]) ) } }

\* strings of the form <o>(a,b)-(c,d) around the enumerated grid, with the
\* cells they name
CandidateStrings ==
    LET coords == (GridMin - Margin)..(GridMax + Margin)
    IN  { [ str |-> Template(o, c[1], c[2], c[3], c[4]),
            pegCol |-> c[1], pegRow |-> c[2], ringCol |-> c[3], ringRow |-> c[4] ] :
            o \in {"U", "D", "X"}, c \in coords \X coords \X coords \X coords }

\* C24: the keys of the node table built by parseTopologySketch are FREE
\* and the names of the placements with a peg cell in 0..4 x 0..4, a ring
\* cell among its 8 neighbours and at least one cell inside the frame; and a
\* string other than FREE is a key exactly when parsePosition accepts it and
\* its two cells are not both outside the frame
C24_KeySet ==
    (pc = "idle" /\ initCalls > 0) =>
        /\ DOMAIN CastDuetGraphNodes = {FreeRingName} \cup FramePlacementNames
        /\ \A c \in CandidateStrings :
              (c.str \in DOMAIN CastDuetGraphNodes) <=>
                  /\ parsePosition(c.str) # UndefinedPos
                  /\ ~(Outside(c.pegCol, c.pegRow) /\ Outside(c.ringCol, c.ringRow))

\* the graph is built, with 209 keys; "U(0,1)-(1,1)" (peg outside, ring
\* inside) is a key and "U(0,0)-(0,1)", which parsePosition accepts, is not
C24_Witness ==
    /\ pc = "idle"
    /\ Cardinality(DOMAIN CastDuetGraphNodes) = 209
    /\ "U(0,1)-(1,1)" \in DOMAIN CastDuetGraphNodes
    /\ parsePosition("U(0,0)-(0,1)") # UndefinedPos
    /\ "U(0,0)-(0,1)" \notin DOMAIN CastDuetGraphNodes

\* the node table after the neighbors of u are scanned with distance alt
Relaxed(nodes, u, alt) ==
    [ v \in DOMAIN nodes |->
        IF v \in nodes[u].connectsTo /\ Less(alt, nodes[v].dist)
        THEN [ nodes[v] EXCEPT !.dist = alt, !.prev = u ]
        ELSE nodes[v] ]

\* one iteration of the loop of dijkstra on the node table s.nodes with the
\* unvisited keys s.unvisited in their order; s itself when the loop has ended
LoopIteration(s) ==
    IF Len(s.unvisited) = 0 THEN s
    ELSE CHOOSE after \in
            { IF i = 0 THEN s
              ELSE [ nodes |-> Relaxed(s.nodes, s.unvisited[i],
                                       Num(s.nodes[s.unvisited[i]].dist.value + 1)),
                     unvisited |-> SubSeq(s.unvisited, 1, i - 1)
                                     \o SubSeq(s.unvisited, i + 1, Len(s.unvisited)) ] :
                i \in { MinDistNode(s.nodes, s.unvisited) } } : TRUE

\* n iterations of the loop of dijkstra from s, as two halves
RECURSIVE RunDijkstra(_, _)
RunDijkstra(s, n) ==
    IF n = 0 THEN s
    ELSE IF n = 1 THEN LoopIteration(s)
    ELSE CHOOSE after \in
            { RunDijkstra(half, n - (n \div 2)) :
                half \in { RunDijkstra(s, n \div 2) } } : TRUE

\* the sequence that the walk along the predecessors builds from acc
RECURSIVE WalkBack(_, _, _)
WalkBack(nodes, n, acc) ==
    IF nodes[n].prev = undefined THEN acc
    ELSE WalkBack(nodes, nodes[n].prev, << nodes[n].prev >> \o acc)

\* how the call findSolution(start, target) ends when it is the first call
\* on the graph that parseTopologySketch has just built
FirstCallOutcome(start, target) ==
    IF ~BothParse(start, target)
    THEN [ pc |-> "returned", solution |-> UndefinedSolution ]
    ELSE IF start \notin NodeNames \/ target \notin NodeNames
    THEN [ pc |-> "thrown", solution |-> UndefinedSolution ]
    ELSE CHOOSE outcome \in
            { [ pc |-> "returned",
                solution |-> WalkBack(final.nodes, target, << target >>) ] :
                final \in { RunDijkstra(s, Len(s.unvisited)) :
                               s \in { [ nodes |-> [ ResetNodes(parseTopologySketch)
                                                       EXCEPT ![start].dist = Num(0) ],
                                         unvisited |-> NodeKeys ] } } } : TRUE

\* C23: however many calls of findSolution came before, and however they
\* ended, a call ends as the same call ends when it is the first call on a
\* freshly built graph: with the same result or the same failure
C23_HistoryIndependent ==
    pc \in {"returned", "thrown"} =>
        \A first \in { FirstCallOutcome(startPosition, targetPosition) } :
            /\ pc = first.pc
            /\ solution = first.solution

\* the second call of a run, findSolution("U(3,1)-(4,1)", "FREE"), has
\* returned on the graph that the first call has used: its 30 moves, the
\* result of the same call made first on a freshly built graph
C23_Witness ==
    /\ calls = 2
    /\ Returned
    /\ startPosition = "U(3,1)-(4,1)"
    /\ targetPosition = "FREE"
    /\ Len(solution) = 31
    /\ solution = FirstCallOutcome("U(3,1)-(4,1)", "FREE").solution

====
